---- MODULE Spec2Model ----
(***************************************************************************)
(* A model of weibullfitpro: the Weibull kernel, the curve generator and   *)
(* the export table (utils/weibull_functions.py, utils/export.py), the     *)
(* point and MLE fitters, parameter validation and the Streamlit pages     *)
(* that call them.                                                         *)
(*                                                                         *)
(* Numbers.  A Python float is modelled as a fixed-point integer counting  *)
(* millionths (ONE = 1.0).  Values of 2000.0 and more saturate to BIG (a   *)
(* finite float too large for the model), INF is +inf (numpy's result of a *)
(* division by zero), NAN is nan and PyNone is Python's None.  log, exp    *)
(* and ** are computed by series on these integers: they are functions of  *)
(* their arguments, accurate to a few millionths, not the identity.        *)
(***************************************************************************)
EXTENDS Integers, Sequences, FiniteSets, TLC

VARIABLES pc,        \* "idle": before a call or script run; "done": after it
          op,        \* the operation that ran last
          args,      \* its arguments (widget values, function arguments)
          result,    \* what it returned, raised or rendered
          calls,     \* the library / core calls it made, in order
          session,   \* st.session_state: user_id, is_guest
          curves,    \* the weibull_curves table
          users,     \* the users table
          threads,   \* the calls that run concurrently, one record per thread
          frames     \* the local variables of those calls, one frame per slot

vars == <<pc, op, args, result, calls, session, curves, users, threads, frames>>

----------------------------------------------------------------------------
(* Fixed-point floats *)

ONE == 1000 * 1000
BIG == 2000 * ONE
INF == BIG + 100 * ONE
NAN == 0 - INF
PyNone == NAN - 1

Abs(a) == IF a < 0 THEN 0 - a ELSE a
Min(a, b) == IF a <= b THEN a ELSE b
Max(a, b) == IF a >= b THEN a ELSE b

IsFinite(v) == v # NAN /\ v # INF /\ v # PyNone

\* a * b for finite a, b >= 0, saturating at BIG; exact floor(a*b/ONE) below it
MulNN(a, b) ==
  LET ah == a \div 1000
      al == a % 1000
      bh == b \div 1000
      bl == b % 1000
  IN  IF ah > 0 /\ bh > 0 /\ ah > BIG \div bh THEN BIG
      ELSE Min(BIG, ah * bh + (ah * bl) \div 1000 + (al * bh) \div 1000
                    + (((ah * bl) % 1000) + ((al * bh) % 1000) + ((al * bl) \div 1000)) \div 1000)

\* float multiplication: nan propagates, inf * 0 is nan
MulFx(a, b) ==
  IF a = NAN \/ b = NAN THEN NAN
  ELSE IF a = INF \/ b = INF THEN (IF a = 0 \/ b = 0 THEN NAN ELSE INF)
  ELSE MulNN(a, b)

\* signed product of finite values
MulS(a, b) ==
  IF (a < 0) = (b < 0) THEN MulNN(Abs(a), Abs(b)) ELSE 0 - MulNN(Abs(a), Abs(b))

RECURSIVE DivDigits(_, _, _, _)
DivDigits(q, r, b, n) ==
  IF n = 0 THEN q
  ELSE DivDigits(q * 10 + (r * 10) \div b, (r * 10) % b, b, n - 1)

\* numpy float division of a >= 0 by b >= 0: x/0 is inf (0/0 nan), x/inf is 0
RECURSIVE DivFx(_, _)
DivFx(a, b) ==
  IF a = NAN \/ b = NAN THEN NAN
  ELSE IF b = 0 THEN (IF a = 0 THEN NAN ELSE INF)
  ELSE IF a = INF THEN (IF b = INF THEN NAN ELSE INF)
  ELSE IF b = INF THEN 0
  ELSE IF b > 200 * ONE THEN DivFx(a \div 16, b \div 16)
  ELSE IF a \div b >= 2000 THEN BIG
  ELSE Min(BIG, DivDigits(a \div b, a % b, b, 6))

LN2 == 693147

RECURSIVE ExpTerms(_, _, _, _)
ExpTerms(f, term, i, acc) ==
  IF term = 0 \/ i > 14 THEN acc
  ELSE LET t == MulNN(term, f) \div i
       IN  ExpTerms(f, t, i + 1, acc + t)

RECURSIVE Pow2(_)
Pow2(n) == IF n = 0 THEN 1 ELSE 2 * Pow2(n - 1)

\* np.exp(t) for finite signed t: 0 below exp(-14), BIG from exp(7.6) on
ExpFx(t) ==
  IF t >= 7600902 THEN BIG
  ELSE IF t <= 0 - 14 * ONE THEN 0
  ELSE LET n == t \div LN2
           f == t % LN2
           e == ExpTerms(f, ONE, 1, ONE)
       IN  IF n >= 0 THEN Min(BIG, e * Pow2(n)) ELSE e \div Pow2(0 - n)

RECURSIVE LnNorm(_, _)
LnNorm(m, n) ==
  IF m >= 2 * ONE THEN LnNorm(m \div 2, n + 1)
  ELSE IF m < ONE THEN LnNorm(m * 2, n - 1)
  ELSE <<m, n>>

RECURSIVE AtanhTerms(_, _, _, _)
AtanhTerms(z2, pw, i, acc) ==
  IF pw = 0 \/ i > 15 THEN acc
  ELSE LET p == MulNN(pw, z2)
       IN  AtanhTerms(z2, p, i + 2, acc + p \div i)

\* np.log(u) for finite u > 0
LnFx(u) ==
  LET mn == LnNorm(u, 0)
      m  == mn[1]
      z  == DivFx(m - ONE, m + ONE)
  IN  mn[2] * LN2 + 2 * AtanhTerms(MulNN(z, z), z, 3, z)

\* u ** p for u >= 0 and finite signed p
PowFx(u, p) ==
  IF u = NAN THEN NAN
  ELSE IF p = 0 THEN ONE
  ELSE IF u = 0 THEN (IF p > 0 THEN 0 ELSE INF)
  ELSE IF u = INF THEN (IF p > 0 THEN INF ELSE 0)
  ELSE IF p = ONE THEN u
  ELSE ExpFx(MulS(p, LnFx(u)))

----------------------------------------------------------------------------
(* utils/weibull_functions.py: the kernel *)

\* np.exp(-v) for v >= 0
NegExp(v) == IF v = NAN THEN NAN ELSE IF v = INF THEN 0 ELSE ExpFx(0 - v)

weibull_pdf(x, shape, scale) ==
  MulFx(MulFx(DivFx(shape, scale), PowFx(DivFx(x, scale), shape - ONE)),
        NegExp(PowFx(DivFx(x, scale), shape)))

weibull_cdf(x, shape, scale) ==
  LET e == NegExp(PowFx(DivFx(x, scale), shape))
  IN  IF e = NAN THEN NAN ELSE ONE - e

weibull_hazard(x, shape, scale) ==
  MulFx(DivFx(shape, scale), PowFx(DivFx(x, scale), shape - ONE))

----------------------------------------------------------------------------
(* utils/weibull_functions.py: generate_weibull_curve *)

PdfThreshold == ONE \div 10000
Precision == ONE \div 100
CdfLevel == ONE - ONE \div 10000

\* str.lower() on the curve-type strings the callers pass
Lower(s) ==
  CASE s = "PDF" -> "pdf"
    [] s = "CDF" -> "cdf"
    [] s = "HAZARD" -> "hazard"
    [] OTHER -> s

\* the while loop of the PDF branch; iters counts its iterations
RECURSIVE BisectLoop(_, _, _, _, _)
BisectLoop(x_left, x_right, shape, scale, iters) ==
  IF x_right - x_left > Precision
  THEN LET x_mid == (x_left + x_right) \div 2
           pdf_value == weibull_pdf(x_mid, shape, scale)
       IN  IF pdf_value > PdfThreshold
           THEN BisectLoop(x_mid, x_right, shape, scale, iters + 1)
           ELSE BisectLoop(x_left, x_mid, shape, scale, iters + 1)
  ELSE [x_right |-> x_right, iters |-> iters]

find_truncation_point(shape, scale, curve_type) ==
  IF Lower(curve_type) = "cdf"
  THEN MulFx(scale, PowFx(0 - LnFx(ONE - CdfLevel), DivFx(ONE, shape)))
  ELSE IF Lower(curve_type) = "hazard"
  THEN MulFx(scale, 3 * ONE)
  ELSE BisectLoop(0, MulFx(scale, 10 * ONE), shape, scale, 0).x_right

\* linspace with endpoint=False: the samples stop short of stop
linspace_open(stop, num) ==
  LET step == stop \div num
  IN  [i \in 1..num |-> (i - 1) * step]

\* np.linspace(0, stop, num): num evenly spaced samples, the last one stop itself
linspace(stop, num) ==
  IF num = 1 THEN <<0>>
  ELSE LET step == stop \div (num - 1)
       IN  [i \in 1..num |-> IF i = num THEN stop ELSE (i - 1) * step]

generate_weibull_curve(shape, scale, num_points, curve_type) ==
  LET x_max == find_truncation_point(shape, scale, curve_type)
      x == linspace(x_max, num_points)
      y == [i \in 1..Len(x) |->
              IF Lower(curve_type) = "pdf" THEN weibull_pdf(x[i], shape, scale)
              ELSE IF Lower(curve_type) = "cdf" THEN weibull_cdf(x[i], shape, scale)
              ELSE weibull_hazard(x[i], shape, scale)]
  IN  [x |-> x, y |-> y]

----------------------------------------------------------------------------
(* utils/export.py: export_curve_data; the DataFrame is a record of columns *)

export_curve_data(shape, scale, curve_type, num_points) ==
  IF curve_type = "pdf"
  THEN LET c == generate_weibull_curve(shape, scale, num_points, "pdf")
       IN  [X_Value |-> c.x, Probability_Density |-> c.y]
  ELSE IF curve_type = "cdf"
  THEN LET c == generate_weibull_curve(shape, scale, num_points, "cdf")
       IN  [X_Value |-> c.x, Cumulative_Probability |-> c.y]
  ELSE LET p == generate_weibull_curve(shape, scale, num_points, "pdf")
           c == generate_weibull_curve(shape, scale, num_points, "cdf")
       IN  [X_Value |-> p.x, Probability_Density |-> p.y,
            Cumulative_Probability |-> c.y]

----------------------------------------------------------------------------
(* Bounds and input sets *)

MaxPoints == 4

ShapeValues == {ONE \div 2, ONE, 2 * ONE, 50 * ONE}
ScaleValues == {ONE \div 2, ONE, 5 * ONE}
CurveTypes == {"pdf", "cdf", "hazard"}
ExportTypes == {"pdf", "cdf", "both"}
NumPoints == 1..MaxPoints

NoSession == [user_id |-> PyNone, is_guest |-> FALSE, token |-> PyNone]

Idle ==
  /\ pc = "idle"
  /\ op = "none"
  /\ args = <<>>
  /\ result = <<>>
  /\ calls = <<>>
  /\ users = <<>>
  /\ threads = <<>>
  /\ frames = <<>>

----------------------------------------------------------------------------
(* The curve generator and the export table as called by main.py,          *)
(* the pages and the download section                                      *)

GenerateCurve ==
  /\ pc = "idle"
  /\ \E shape \in ShapeValues, scale \in ScaleValues,
        n \in NumPoints, ct \in CurveTypes :
       /\ args' = [shape |-> shape, scale |-> scale, num_points |-> n, curve_type |-> ct]
       /\ result' = generate_weibull_curve(shape, scale, n, ct)
  /\ op' = "generate_weibull_curve"
  /\ pc' = "done"
  /\ UNCHANGED <<calls, session, curves, users, threads, frames>>

ExportCurveData ==
  /\ pc = "idle"
  /\ \E shape \in ShapeValues, scale \in ScaleValues,
        n \in NumPoints, ct \in ExportTypes :
       /\ args' = [shape |-> shape, scale |-> scale, num_points |-> n, curve_type |-> ct]
       /\ result' = export_curve_data(shape, scale, ct, n)
  /\ op' = "export_curve_data"
  /\ pc' = "done"
  /\ UNCHANGED <<calls, session, curves, users, threads, frames>>

\* the call has returned; the next one starts from scratch
Return ==
  /\ pc = "done"
  /\ pc' = "idle"
  /\ op' = "none"
  /\ args' = <<>>
  /\ result' = <<>>
  /\ calls' = <<>>
  /\ UNCHANGED <<session, curves, users, threads, frames>>

InitCurve == Idle /\ session = NoSession /\ curves = <<>>
NextCurve == GenerateCurve \/ ExportCurveData \/ Return
SpecCurve == InitCurve /\ [][NextCurve]_vars

----------------------------------------------------------------------------
(* scipy.optimize.curve_fit as fit_weibull_to_points calls it.  The search  *)
(* itself is the library's: oc is what it comes to (whether it converged,   *)
(* and the parameters it found, which it keeps inside the bounds).          *)

Clip(v, lo, hi) == Max(lo, Min(hi, v))

InBounds(p, lb, ub) == \A i \in 1..Len(p) : lb[i] <= p[i] /\ p[i] <= ub[i]

curve_fit(x_points, y_points, p0, lb, ub, oc) ==
  IF ~InBounds(p0, lb, ub)
  THEN [kind |-> "raise", exc |-> "ValueError", msg |-> "x0 is infeasible",
        popt |-> <<>>]
  ELSE IF ~oc.converged
  THEN [kind |-> "raise", exc |-> "RuntimeError",
        msg |-> "Optimal parameters not found", popt |-> <<>>]
  ELSE [kind |-> "return", exc |-> "", msg |-> "",
        popt |-> [i \in 1..2 |-> Clip(oc.popt[i], lb[i], ub[i])]]

\* np.mean of the three ages
Mean3(x) == DivFx(x[1] + x[2] + x[3], 3 * ONE)

FitLower == <<ONE \div 10, ONE \div 10>>
FitUpper == <<50 * ONE, 100 * ONE>>

\* fit_weibull_to_points with the except clause of lines 33-35 left out: every
\* failure of curve_fit leaves the function as an exception
fit_weibull_to_points_uncaught(x_points, y_points, oc) ==
  LET r == curve_fit(x_points, y_points, <<2 * ONE, Mean3(x_points)>>,
                     FitLower, FitUpper, oc)
  IN  IF r.kind = "return"
      THEN [kind |-> "return", value |-> <<r.popt[1], r.popt[2]>>,
            exc |-> "", msg |-> "", solver |-> <<x_points>>]
      ELSE [kind |-> "raise", value |-> <<>>, exc |-> r.exc, msg |-> r.msg,
            solver |-> <<x_points>>]

\* solver: the x-values of each call of the least-squares solver
fit_weibull_to_points(x_points, y_points, oc) ==
  LET r == curve_fit(x_points, y_points, <<2 * ONE, Mean3(x_points)>>,
                     FitLower, FitUpper, oc)
  IN  IF r.kind = "return"
      THEN [kind |-> "return", value |-> <<r.popt[1], r.popt[2]>>,
            exc |-> "", msg |-> "", solver |-> <<x_points>>]
      ELSE IF r.exc = "RuntimeError"
      THEN [kind |-> "return", value |-> <<PyNone, PyNone>>,
            exc |-> "", msg |-> "", solver |-> <<x_points>>]
      ELSE [kind |-> "raise", value |-> <<>>, exc |-> r.exc, msg |-> r.msg,
            solver |-> <<x_points>>]

----------------------------------------------------------------------------
(* utils/curve_storage.py: save_curve *)

RECURSIVE MaxId(_)
MaxId(rows) == IF rows = <<>> THEN 0 ELSE Max(rows[1].id, MaxId(Tail(rows)))

Falsy(v) == v = PyNone \/ v = 0

\* save_curve without the user_id test of line 14
save_curve_anyuser(name, description, shape, scale, method, user_id, db, db_ok) ==
  IF name = ""
  THEN [ok |-> FALSE, message |-> <<"Please provide a name for the curve">>, curves |-> db]
  ELSE IF ~db_ok
  THEN [ok |-> FALSE, message |-> <<"Error saving curve: ", "database error">>, curves |-> db]
  ELSE [ok |-> TRUE, message |-> <<"Curve saved successfully">>,
        curves |-> Append(db, [id |-> MaxId(db) + 1, name |-> name,
                               description |-> description, shape |-> shape,
                               scale |-> scale, method |-> method,
                               user_id |-> user_id])]

\* db_ok: whether the INSERT and the commit go through
save_curve(name, description, shape, scale, method, user_id, db, db_ok) ==
  IF name = ""
  THEN [ok |-> FALSE, message |-> <<"Please provide a name for the curve">>, curves |-> db]
  ELSE IF Falsy(user_id)
  THEN [ok |-> FALSE, message |-> <<"Please log in to save curves">>, curves |-> db]
  ELSE IF ~db_ok
  THEN [ok |-> FALSE, message |-> <<"Error saving curve: ", "database error">>, curves |-> db]
  ELSE [ok |-> TRUE, message |-> <<"Curve saved successfully">>,
        curves |-> Append(db, [id |-> MaxId(db) + 1, name |-> name,
                               description |-> description, shape |-> shape,
                               scale |-> scale, method |-> method,
                               user_id |-> user_id])]

----------------------------------------------------------------------------
(* components/point_fitting.py: point_fitting_interface.  A page returns    *)
(* what it rendered: the st.error messages, the curves it plotted, whether  *)
(* the save form was shown, the calls it made and the table afterwards.     *)

AscendingMsg == <<"Ages must be in ascending order (25% <= 50% <= 75%)">>
CouldNotFitMsg == <<"Could not fit Weibull curve to provided points">>

\* st.slider(min_value, max_value, value): left alone or dragged to an end
Slider(move, min_value, max_value, value) ==
  CASE move = "min" -> min_value
    [] move = "max" -> max_value
    [] OTHER -> value

\* the check of line 39 with its second comparison lost
AgesAscending_first(x1, x2, x3) == x1 <= x2

AgesAscending(x1, x2, x3) == x1 <= x2 /\ x2 <= x3

Page(errors, plotted, save_offered, fit, saved, pcalls, db) ==
  [errors |-> errors, plotted |-> plotted, save_offered |-> save_offered,
   fit |-> fit, saved |-> saved, calls |-> pcalls, curves |-> db]

NoFit == [kind |-> "none", value |-> <<>>, exc |-> "", msg |-> "", solver |-> <<>>]
NoSave == [ok |-> FALSE, message |-> <<>>, curves |-> <<>>]

Call(fn, a) == [fn |-> fn, a |-> a]

\* the save form at the end of a fitting page
SaveForm(in, shape, scale, method, sess, db, before, plotted, fit) ==
  IF sess.is_guest
  THEN Page(<<>>, plotted, FALSE, fit, NoSave, before, db)
  ELSE IF ~in.save_clicked
  THEN Page(<<>>, plotted, TRUE, fit, NoSave, before, db)
  ELSE LET r == save_curve(in.name, in.description, shape, scale, method,
                           sess.user_id, db, in.db_ok)
       IN  Page(IF r.ok THEN <<>> ELSE <<r.message>>, plotted, TRUE, fit, r,
                Append(before, Call("save_curve",
                         <<in.name, in.description, shape, scale, method, sess.user_id>>)),
                r.curves)

point_fitting_interface(in, sess, db) ==
  IF ~AgesAscending(in.x1, in.x2, in.x3)
  THEN Page(<<AscendingMsg>>, <<>>, FALSE, NoFit, NoSave, <<>>, db)
  ELSE
    LET x_points == <<in.x1, in.x2, in.x3>>
        y_points == <<ONE \div 4, ONE \div 2, (3 * ONE) \div 4>>
        fit == fit_weibull_to_points(x_points, y_points, in.oc)
        solver == [i \in 1..Len(fit.solver) |-> Call("curve_fit", fit.solver[i])]
    IN  IF fit.kind = "raise"
        THEN Page(<<<<"Error fitting curve: ", fit.msg>>>>, <<>>, FALSE, fit, NoSave, solver, db)
        ELSE IF fit.value[1] = PyNone \/ fit.value[2] = PyNone
        THEN Page(<<CouldNotFitMsg>>, <<>>, FALSE, fit, NoSave, solver, db)
        ELSE
          LET shape == fit.value[1]
              scale == fit.value[2]
              first == [shape |-> shape, scale |-> scale, curve_type |-> in.curve_type]
              shape_adjusted == Slider(in.shape_move, Max(ONE \div 10, MulFx(shape, ONE \div 2)),
                                       MulFx(shape, 2 * ONE), shape)
              scale_adjusted == Slider(in.scale_move, Max(ONE \div 10, MulFx(scale, ONE \div 2)),
                                       MulFx(scale, 2 * ONE), scale)
              again == [shape |-> shape_adjusted, scale |-> scale_adjusted,
                        curve_type |-> in.curve_type]
              changed == shape_adjusted # shape \/ scale_adjusted # scale
              plotted == IF changed THEN <<first, again>> ELSE <<first>>
              pcalls == solver
                        \o <<Call("generate_weibull_curve", <<shape, scale, in.curve_type>>)>>
                        \o (IF changed
                            THEN <<Call("generate_weibull_curve",
                                        <<shape_adjusted, scale_adjusted, in.curve_type>>)>>
                            ELSE <<>>)
          IN  SaveForm(in, shape_adjusted, scale_adjusted, "Point Fitting",
                       sess, db, pcalls, plotted, fit)

----------------------------------------------------------------------------
(* The point-fitting page, run by a logged-in user or a guest *)

MaxCurves == 1

AgeValues == {ONE, 2 * ONE, 3 * ONE, 150 * ONE}
SolverOutcomes ==
  {[converged |-> FALSE, popt |-> <<0, 0>>]}
  \cup {[converged |-> TRUE, popt |-> p] :
          p \in {<<(3 * ONE) \div 2, 2 * ONE>>, <<60 * ONE, 120 * ONE>>}}
Names == {"", "a"}
Sessions ==
  {[user_id |-> 1, is_guest |-> FALSE, token |-> BIG + 1],
   [user_id |-> PyNone, is_guest |-> TRUE, token |-> PyNone]}

\* the widgets of a save form: no click, or a click with a name
SaveInputs(db) ==
  {[save_clicked |-> FALSE, name |-> "", description |-> "", db_ok |-> TRUE]}
  \cup (IF Len(db) < MaxCurves
        THEN [save_clicked : {TRUE}, name : Names, description : {""}, db_ok : BOOLEAN]
        ELSE {})

PointFittingPage ==
  /\ pc = "idle"
  /\ \E x1 \in AgeValues, x2 \in AgeValues, x3 \in AgeValues, ct \in CurveTypes,
        oc \in SolverOutcomes, sm \in {"keep", "max"}, lm \in {"keep", "min"},
        sv \in SaveInputs(curves) :
       LET in == [x1 |-> x1, x2 |-> x2, x3 |-> x3, curve_type |-> ct, oc |-> oc,
                  shape_move |-> sm, scale_move |-> lm,
                  save_clicked |-> sv.save_clicked, name |-> sv.name,
                  description |-> sv.description, db_ok |-> sv.db_ok]
           page == point_fitting_interface(in, session, curves)
       IN  /\ args' = in
           /\ result' = page
           /\ calls' = page.calls
           /\ curves' = page.curves
  /\ op' = "point_fitting_interface"
  /\ pc' = "done"
  /\ UNCHANGED <<session, users, threads, frames>>

InitPoint == Idle /\ session \in Sessions /\ curves = <<>>
NextPoint == PointFittingPage \/ Return
SpecPoint == InitPoint /\ [][NextPoint]_vars

----------------------------------------------------------------------------
(* components/mle_fitting.py: fit_weibull_mle *)

RECURSIVE Insert(_, _)
Insert(v, sorted) ==
  IF sorted = <<>> THEN <<v>>
  ELSE IF v <= sorted[1] THEN <<v>> \o sorted
  ELSE <<sorted[1]>> \o Insert(v, Tail(sorted))

RECURSIVE Sort(_)
Sort(a) == IF a = <<>> THEN <<>> ELSE Insert(a[1], Sort(Tail(a)))

\* np.percentile(a, q): linear interpolation between the two nearest ranks
Percentile(a, q) ==
  LET sorted == Sort(a)
      pos == q * (Len(a) - 1)
      lo == pos \div 100
      frac == ((pos % 100) * ONE) \div 100
  IN  IF frac = 0 THEN sorted[lo + 1]
      ELSE sorted[lo + 1] + MulNN(sorted[lo + 2] - sorted[lo + 1], frac)

RECURSIVE MaxOf(_)
MaxOf(a) == IF Len(a) = 1 THEN a[1] ELSE Max(a[1], MaxOf(Tail(a)))

\* lines 51-58 without the clamp of line 55
InitialGuess_unclamped(lifetimes) ==
  LET p25 == Percentile(lifetimes, 25)
      p50 == Percentile(lifetimes, 50)
      p75 == Percentile(lifetimes, 75)
      shape_guess == DivFx(LnFx(LnFx(4 * ONE)), LnFx(DivFx(p75, p25)))
      scale_guess == DivFx(p50, PowFx(LnFx(2 * ONE), DivFx(ONE, shape_guess)))
  IN  <<shape_guess, scale_guess>>

\* shape_guess and scale_guess of lines 51-58
InitialGuess(lifetimes) ==
  LET p25 == Percentile(lifetimes, 25)
      p50 == Percentile(lifetimes, 50)
      p75 == Percentile(lifetimes, 75)
      raw == DivFx(LnFx(LnFx(4 * ONE)), LnFx(DivFx(p75, p25)))
      shape_guess == Max(ONE \div 2, Min(5 * ONE, raw))
      scale_guess == DivFx(p50, PowFx(LnFx(2 * ONE), DivFx(ONE, shape_guess)))
  IN  <<shape_guess, scale_guess>>

\* np.clip: nan stays nan
ClipF(v, lo, hi) == IF v = NAN THEN NAN ELSE Clip(v, lo, hi)

(* scipy.optimize.minimize(method='Nelder-Mead') with bounds.  The search is
   the library's: oc is what it reports (success, message, and the point it
   ends at, which it clips into the bounds).  It raises ValueError when a
   lower bound exceeds an upper bound. *)
minimize(x0, lb, ub, oc) ==
  IF \E i \in 1..2 : lb[i] > ub[i]
  THEN [kind |-> "raise", success |-> FALSE, x |-> <<>>,
        message |-> "one of the lower bounds is greater than an upper bound"]
  ELSE [kind |-> "return", success |-> oc.success,
        x |-> [i \in 1..2 |-> ClipF(oc.x[i], lb[i], ub[i])],
        message |-> oc.message]

\* line 70 without the test: a failed search passes for a fit
OptimizationFailed_never(res) == FALSE

OptimizationFailed(res) == ~res.success

\* line 74 testing the shape alone
InvalidParameters_shape(x) == ~IsFinite(x[1])

InvalidParameters(x) == ~(IsFinite(x[1]) /\ IsFinite(x[2]))

Raise(msg) == [kind |-> "raise", value |-> <<>>, msg |-> msg]

\* lines 70-80: what fit_weibull_mle makes of the optimizer's result
Fitted(res) ==
  IF res.kind = "raise"
  THEN Raise(<<"Fitting error: ", res.message>>)
  ELSE IF OptimizationFailed(res)
  THEN Raise(<<"Fitting error: ", "Optimization failed: ", res.message>>)
  ELSE IF InvalidParameters(res.x)
  THEN Raise(<<"Fitting error: ", "Optimization resulted in invalid parameters">>)
  ELSE [kind |-> "return", value |-> <<res.x[1], res.x[2]>>, msg |-> <<>>]

\* line 65: bounds=[(0.1, 50), (0.1, np.max(lifetimes) * 2)]
MleLower == <<ONE \div 10, ONE \div 10>>
MleUpper(lifetimes) == <<50 * ONE, MulFx(MaxOf(lifetimes), 2 * ONE)>>

fit_weibull_mle(lifetimes, oc) ==
  IF Len(lifetimes) < 2
  THEN Raise(<<"Need at least 2 data points for fitting">>)
  ELSE IF \E i \in 1..Len(lifetimes) : lifetimes[i] <= 0
  THEN Raise(<<"All lifetimes must be positive">>)
  ELSE Fitted(minimize(InitialGuess(lifetimes), MleLower, MleUpper(lifetimes), oc))

----------------------------------------------------------------------------
(* components/mle_fitting.py: calculate_lifetimes and mle_fitting_interface. *)
(* A date is a day number; NaT is a blank cell, BadDate a cell that          *)
(* pd.to_datetime cannot parse.                                              *)

NaT == NAN
BadDate == PyNone - 1
YearDays == 365 * ONE + ONE \div 4

\* years between the two dates; nan when either is NaT
Lifetime(row) ==
  IF row.in_service_date = NaT \/ row.retirement_date = NaT THEN NAN
  ELSE LET d == row.retirement_date - row.in_service_date
       IN  IF d >= 0 THEN DivFx(d * ONE, YearDays) ELSE 0 - DivFx((0 - d) * ONE, YearDays)

\* the filter of line 16 letting zero lifetimes through
KeepRow_nonneg(lifetime) == lifetime >= 0

\* df['lifetime'] > 0, which is False for nan
KeepRow(lifetime) == lifetime # NAN /\ lifetime > 0

calculate_lifetimes(rows) ==
  IF \E i \in 1..Len(rows) :
       rows[i].in_service_date = BadDate \/ rows[i].retirement_date = BadDate
  THEN [kind |-> "raise", lifetimes |-> <<>>, msg |-> "Unknown datetime string format"]
  ELSE LET all == [i \in 1..Len(rows) |-> Lifetime(rows[i])]
           Keep(l) == KeepRow(l)
       IN  [kind |-> "return", lifetimes |-> SelectSeq(all, Keep), msg |-> ""]

ColumnsMsg ==
  <<"CSV must contain columns: asset_identifier, in_service_date, and retirement_date">>
NoValidMsg == <<"No valid lifetime data found after processing">>

NoFile == [present |-> FALSE, columns_ok |-> FALSE, rows |-> <<>>]

\* lines 119-193: the page once the lifetimes are fitted
FittedPage(in, sess, db, lifetimes, fit) ==
  IF fit.kind = "raise"
  THEN Page(<<<<"Error fitting Weibull distribution: ">> \o fit.msg>>,
            <<>>, FALSE, fit, NoSave, <<Call("fit_weibull_mle", lifetimes)>>, db)
  ELSE SaveForm(in, fit.value[1], fit.value[2], "Maximum Likelihood Estimation", sess, db,
                <<Call("fit_weibull_mle", lifetimes),
                  Call("generate_weibull_curve", <<fit.value[1], fit.value[2], "pdf">>)>>,
                <<[shape |-> fit.value[1], scale |-> fit.value[2], curve_type |-> "pdf"]>>,
                fit)

mle_fitting_interface(in, sess, db) ==
  IF ~in.uploaded_file.present
  THEN Page(<<>>, <<>>, FALSE, NoFit, NoSave, <<>>, db)
  ELSE IF ~in.uploaded_file.columns_ok
  THEN Page(<<ColumnsMsg>>, <<>>, FALSE, NoFit, NoSave, <<>>, db)
  ELSE
    LET df == calculate_lifetimes(in.uploaded_file.rows)
    IN  IF df.kind = "raise"
        THEN Page(<<<<"Error processing file: ", df.msg>>>>, <<>>, FALSE, NoFit, NoSave, <<>>, db)
        ELSE IF Len(df.lifetimes) = 0
        THEN Page(<<NoValidMsg>>, <<>>, FALSE, NoFit, NoSave, <<>>, db)
        ELSE FittedPage(in, sess, db, df.lifetimes, fit_weibull_mle(df.lifetimes, in.oc))

----------------------------------------------------------------------------
(* The MLE fitter called on a sample, and the upload page *)

MaxLifetimes == 3
MaxRows == 2

LifetimeValues == {0 - ONE, 0, ONE \div 50, ONE, 3 * ONE}

RECURSIVE SeqsUpTo(_, _)
SeqsUpTo(S, n) ==
  IF n = 0 THEN {<<>>}
  ELSE LET shorter == SeqsUpTo(S, n - 1)
       IN  shorter \cup {Append(q, v) : q \in shorter, v \in S}

OptimizerOutcomes ==
  [success : BOOLEAN, message : {"Maximum number of iterations has been exceeded."},
   x : {<<(3 * ONE) \div 2, 2 * ONE>>, <<0, 0>>, <<60 * ONE, NAN>>}]

FitWeibullMle ==
  /\ pc = "idle"
  /\ \E lifetimes \in SeqsUpTo(LifetimeValues, MaxLifetimes), oc \in OptimizerOutcomes :
       /\ args' = [lifetimes |-> lifetimes, oc |-> oc]
       /\ result' = fit_weibull_mle(lifetimes, oc)
  /\ op' = "fit_weibull_mle"
  /\ pc' = "done"
  /\ UNCHANGED <<calls, session, curves, users, threads, frames>>

CsvRows ==
  [in_service_date : {400}, retirement_date : {NaT, BadDate, 100, 400, 410, 1500}]

UploadedFiles ==
  {NoFile} \cup [present : {TRUE}, columns_ok : BOOLEAN, rows : SeqsUpTo(CsvRows, MaxRows)]

MleFittingPage ==
  /\ pc = "idle"
  /\ \E f \in UploadedFiles, oc \in OptimizerOutcomes, sv \in SaveInputs(curves) :
       LET in == [uploaded_file |-> f, oc |-> oc,
                  save_clicked |-> sv.save_clicked, name |-> sv.name,
                  description |-> sv.description, db_ok |-> sv.db_ok]
           page == mle_fitting_interface(in, session, curves)
       IN  /\ args' = in
           /\ result' = page
           /\ calls' = page.calls
           /\ curves' = page.curves
  /\ op' = "mle_fitting_interface"
  /\ pc' = "done"
  /\ UNCHANGED <<session, users, threads, frames>>

InitMle == Idle /\ session \in Sessions /\ curves = <<>>
NextMle == FitWeibullMle \/ MleFittingPage \/ Return
SpecMle == InitMle /\ [][NextMle]_vars

----------------------------------------------------------------------------
(* utils/weibull_functions.py: validate_parameters.  A Python argument is a  *)
(* float, a str (with the number float() reads from it, PyNone when it reads *)
(* none) or None.                                                            *)

PyFloat(v) == [t |-> "float", v |-> v, text |-> ""]
PyStr(text, v) == [t |-> "str", v |-> v, text |-> text]
PyNoneValue == [t |-> "none", v |-> PyNone, text |-> ""]

\* float(value)
float(value) ==
  IF value.t = "none"
  THEN [kind |-> "raise", exc |-> "TypeError", v |-> PyNone]
  ELSE IF value.t = "str" /\ value.v = PyNone
  THEN [kind |-> "raise", exc |-> "ValueError", v |-> PyNone]
  ELSE [kind |-> "return", exc |-> "", v |-> value.v]

\* v <= 0 on floats: False for nan
LeZero(v) == v # NAN /\ v <= 0

Validated(ok, message) ==
  [kind |-> "return", exc |-> "", ok |-> ok, message |-> message]

\* what the try block does with an exception of float()
Except(exc) ==
  IF exc = "ValueError"
  THEN Validated(FALSE, "Invalid parameter values")
  ELSE [kind |-> "raise", exc |-> exc, ok |-> FALSE, message |-> ""]

validate_parameters(shape, scale) ==
  LET fshape == float(shape)
      fscale == float(scale)
  IN  IF fshape.kind = "raise" THEN Except(fshape.exc)
      ELSE IF fscale.kind = "raise" THEN Except(fscale.exc)
      ELSE IF LeZero(fshape.v) \/ LeZero(fscale.v)
      THEN Validated(FALSE, "Shape and scale parameters must be positive")
      ELSE Validated(TRUE, "")

----------------------------------------------------------------------------
(* components/direct_params.py: direct_params_interface.  The two number     *)
(* inputs have min_value 0.1, so in.shape and in.scale are floats >= 0.1.    *)

direct_params_interface(in, sess, db) ==
  LET v == validate_parameters(PyFloat(in.shape), PyFloat(in.scale))
      validated == <<Call("validate_parameters", <<in.shape, in.scale>>)>>
  IN  IF v.ok
      THEN SaveForm(in, in.shape, in.scale, "Direct Parameters", sess, db,
                    Append(validated,
                           Call("generate_weibull_curve", <<in.shape, in.scale, in.curve_type>>)),
                    <<[shape |-> in.shape, scale |-> in.scale, curve_type |-> in.curve_type]>>,
                    NoFit)
      ELSE Page(<<<<v.message>>>>, <<>>, FALSE, NoFit, NoSave, validated, db)

PyValues ==
  {PyFloat(v) : v \in {0 - ONE, 0, ONE \div 10, 2 * ONE, INF, NAN}}
  \cup {PyStr("2.5", (5 * ONE) \div 2), PyStr("-1", 0 - ONE), PyStr("abc", PyNone),
        PyNoneValue}

ValidateParameters ==
  /\ pc = "idle"
  /\ \E shape \in PyValues, scale \in PyValues :
       /\ args' = [shape |-> shape, scale |-> scale]
       /\ result' = validate_parameters(shape, scale)
  /\ op' = "validate_parameters"
  /\ pc' = "done"
  /\ UNCHANGED <<calls, session, curves, users, threads, frames>>

DirectParamsPage ==
  /\ pc = "idle"
  /\ \E shape \in ShapeValues, scale \in ScaleValues, ct \in CurveTypes,
        sv \in SaveInputs(curves) :
       LET in == [shape |-> shape, scale |-> scale, curve_type |-> ct,
                  save_clicked |-> sv.save_clicked, name |-> sv.name,
                  description |-> sv.description, db_ok |-> sv.db_ok]
           page == direct_params_interface(in, session, curves)
       IN  /\ args' = in
           /\ result' = page
           /\ calls' = page.calls
           /\ curves' = page.curves
  /\ op' = "direct_params_interface"
  /\ pc' = "done"
  /\ UNCHANGED <<session, users, threads, frames>>

InitDirect == Idle /\ session \in Sessions /\ curves = <<>>
NextDirect == ValidateParameters \/ DirectParamsPage \/ Return
SpecDirect == InitDirect /\ [][NextDirect]_vars

----------------------------------------------------------------------------
(* utils/curve_storage.py: delete_curve and get_saved_curves, and the three  *)
(* storage functions called by any user.  The table is kept in insertion     *)
(* order, which is the order of the rows' timestamps.                        *)

\* the two filters of lines 41-42 without the second
Matches_name(row, curve_name, user_id) == row.name = curve_name

Matches(row, curve_name, user_id) == row.name = curve_name /\ row.user_id = user_id

Without(db, i) == SubSeq(db, 1, i - 1) \o SubSeq(db, i + 1, Len(db))

(* .first() has no ORDER BY: which of several matching rows it yields is the
   database's choice, here the argument first.  db_ok: whether the DELETE and
   the commit go through. *)
delete_curve(curve_name, user_id, db, first, db_ok) ==
  LET found == {i \in 1..Len(db) : Matches(db[i], curve_name, user_id)}
  IN  IF Falsy(user_id)
      THEN [ok |-> FALSE, message |-> <<"Please log in to delete curves">>, curves |-> db]
      ELSE IF found = {}
      THEN [ok |-> FALSE, message |-> <<"Curve not found">>, curves |-> db]
      ELSE IF ~db_ok
      THEN [ok |-> FALSE, message |-> <<"Error deleting curve: ", "database error">>,
            curves |-> db]
      ELSE [ok |-> TRUE, message |-> <<"Curve deleted successfully">>,
            curves |-> Without(db, IF first \in found THEN first ELSE CHOOSE i \in found : TRUE)]

RECURSIVE Reverse(_)
Reverse(q) == IF q = <<>> THEN <<>> ELSE Append(Reverse(Tail(q)), Head(q))

CurveDict(row) ==
  [name |-> row.name, description |-> row.description, shape |-> row.shape,
   scale |-> row.scale, method |-> row.method]

\* the rows of user_id, newest first
get_saved_curves(user_id, db) ==
  IF Falsy(user_id) THEN <<>>
  ELSE LET Owned(row) == row.user_id = user_id
           mine == Reverse(SelectSeq(db, Owned))
       IN  [i \in 1..Len(mine) |-> CurveDict(mine[i])]

MaxStored == 2
MaxRowId == 3

UserIds == {PyNone, 1, 2}
CurveNames == {"", "a", "b"}
StoredScales == {ONE, 5 * ONE}

SaveCurve ==
  /\ pc = "idle"
  /\ Len(curves) < MaxStored
  /\ MaxId(curves) < MaxRowId
  /\ \E name \in CurveNames, scale \in StoredScales, user_id \in UserIds, db_ok \in BOOLEAN :
       LET r == save_curve(name, "", 2 * ONE, scale, "Direct Parameters", user_id,
                           curves, db_ok)
       IN  /\ args' = [name |-> name, description |-> "", shape |-> 2 * ONE,
                       scale |-> scale, method |-> "Direct Parameters",
                       user_id |-> user_id, db_ok |-> db_ok]
           /\ result' = [ok |-> r.ok, message |-> r.message]
           /\ curves' = r.curves
  /\ op' = "save_curve"
  /\ pc' = "done"
  /\ UNCHANGED <<calls, session, users, threads, frames>>

DeleteCurve ==
  /\ pc = "idle"
  /\ \E curve_name \in CurveNames, user_id \in UserIds, first \in 1..MaxStored + 1,
        db_ok \in BOOLEAN :
       LET r == delete_curve(curve_name, user_id, curves, first, db_ok)
       IN  /\ first <= Max(1, Len(curves))
           /\ args' = [curve_name |-> curve_name, user_id |-> user_id, db_ok |-> db_ok]
           /\ result' = [ok |-> r.ok, message |-> r.message]
           /\ curves' = r.curves
  /\ op' = "delete_curve"
  /\ pc' = "done"
  /\ UNCHANGED <<calls, session, users, threads, frames>>

GetSavedCurves ==
  /\ pc = "idle"
  /\ \E user_id \in UserIds :
       /\ args' = [user_id |-> user_id]
       /\ result' = get_saved_curves(user_id, curves)
  /\ op' = "get_saved_curves"
  /\ pc' = "done"
  /\ UNCHANGED <<calls, session, curves, users, threads, frames>>

InitStore == Idle /\ session = NoSession /\ curves = <<>>
NextStore == SaveCurve \/ DeleteCurve \/ GetSavedCurves \/ Return
SpecStore == InitStore /\ [][NextStore]_vars

----------------------------------------------------------------------------
(* utils/auth.py: create_user, run by several sessions at once.  Each call   *)
(* has its own database session on the one users table; its SELECT and its   *)
(* INSERT + commit are two steps, and other calls may run between them.      *)

\* bcrypt.hashpw and bcrypt.checkpw: a hash is not the password, and only
\* the password it was made from verifies against it
get_password_hash(password) == <<"bcrypt", password>>
verify_password(plain_password, hashed_password) ==
  hashed_password = <<"bcrypt", plain_password>>

Registered(table, email) == \E i \in 1..Len(table) : table[i].email = email

\* the users table without the unique constraint on email
UniqueEmail_off(table, email) == TRUE

\* Column(String, unique=True): the INSERT is accepted only for a new email
UniqueEmail(table, email) == ~Registered(table, email)

RECURSIVE MaxUserId(_)
MaxUserId(table) == IF table = <<>> THEN 0 ELSE Max(table[1].id, MaxUserId(Tail(table)))

\* line 52: the SELECT
create_user_query(email, table) ==
  IF Registered(table, email)
  THEN [returned |-> TRUE, ok |-> FALSE, message |-> <<"Email already registered">>]
  ELSE [returned |-> FALSE, ok |-> FALSE, message |-> <<>>]

\* lines 55-63: hash, INSERT, commit; rollback when the database refuses
create_user_commit(email, password, table) ==
  IF UniqueEmail(table, email)
  THEN [ok |-> TRUE, message |-> <<"User created successfully">>,
        users |-> Append(table, [id |-> MaxUserId(table) + 1, email |-> email,
                                 password |-> get_password_hash(password)])]
  ELSE [ok |-> FALSE,
        message |-> <<"Error creating user: ", "UNIQUE constraint failed: users.email">>,
        users |-> table]

\* the whole call with no other call in between
create_user(email, password, table) ==
  LET q == create_user_query(email, table)
      c == create_user_commit(email, password, table)
  IN  IF q.returned THEN [ok |-> q.ok, message |-> q.message, users |-> table] ELSE c

MaxThreads == 2
ThreadIds == 1..MaxThreads
Emails == {"x", "y"}
Passwords == {"p"}

IdleThread == [pc |-> "idle", fn |-> "none", args |-> <<>>, result |-> <<>>]

CreateUserQuery(t) ==
  /\ threads[t].pc = "idle"
  /\ \E email \in Emails, password \in Passwords :
       LET q == create_user_query(email, users)
       IN  threads' = [threads EXCEPT ![t] =
                         [pc |-> IF q.returned THEN "done" ELSE "checked",
                          fn |-> "create_user",
                          args |-> [email |-> email, password |-> password],
                          result |-> [ok |-> q.ok, message |-> q.message]]]
  /\ UNCHANGED <<pc, op, args, result, calls, session, curves, users, frames>>

CreateUserCommit(t) ==
  /\ threads[t].pc = "checked"
  /\ threads[t].fn = "create_user"
  /\ LET c == create_user_commit(threads[t].args.email, threads[t].args.password, users)
     IN  /\ users' = c.users
         /\ threads' = [threads EXCEPT ![t].pc = "done",
                                       ![t].result = [ok |-> c.ok, message |-> c.message]]
  /\ UNCHANGED <<pc, op, args, result, calls, session, curves, frames>>

ThreadReturn(t) ==
  /\ threads[t].pc = "done"
  /\ threads' = [threads EXCEPT ![t] = IdleThread]
  /\ UNCHANGED <<pc, op, args, result, calls, session, curves, users, frames>>

InitSignup ==
  /\ pc = "idle" /\ op = "none" /\ args = <<>> /\ result = <<>> /\ calls = <<>>
  /\ session = NoSession
  /\ curves = <<>>
  /\ users = <<>>
  /\ frames = <<>>
  /\ threads = [t \in ThreadIds |-> IdleThread]

NextSignup ==
  \E t \in ThreadIds : CreateUserQuery(t) \/ CreateUserCommit(t) \/ ThreadReturn(t)

SpecSignup == InitSignup /\ [][NextSignup]_vars

----------------------------------------------------------------------------
(* generate_weibull_curve, fit_weibull_to_points and fit_weibull_mle called  *)
(* by several threads at once.  The three functions keep what they work on   *)
(* (parameters, x_max, p0, the percentiles, the guesses) in local variables: *)
(* a call binds them in its own frame when it is entered and computes its    *)
(* result from that frame.  The arrays passed in stay with the caller        *)
(* (threads[t].args).                                                        *)

\* one frame for the whole process, as module-level variables would be
Slot_shared(t) == 1

\* the frame of the call running in thread t
Slot(t) == t

ConcurrentCalls ==
  {[fn |-> "generate_weibull_curve",
    args |-> [shape |-> shape, scale |-> ONE, num_points |-> 2, curve_type |-> ct]] :
      shape \in {ONE, 2 * ONE}, ct \in {"cdf", "pdf"}}
  \cup {[fn |-> "fit_weibull_to_points",
         args |-> [x_points |-> x, y_points |-> <<ONE \div 4, ONE \div 2, (3 * ONE) \div 4>>,
                   oc |-> oc]] :
          x \in {<<ONE, 2 * ONE, 3 * ONE>>, <<ONE, 150 * ONE, 150 * ONE>>},
          oc \in {o \in SolverOutcomes : o.popt[1] < 50 * ONE}}
  \cup {[fn |-> "fit_weibull_mle", args |-> [lifetimes |-> l, oc |-> oc]] :
          l \in {<<ONE>>, <<ONE, 3 * ONE>>},
          oc \in {o \in OptimizerOutcomes : o.x[2] # NAN /\ (o.success \/ o.x[1] = 0)}}

CallEnter(t) ==
  /\ threads[t].pc = "idle"
  /\ \E c \in ConcurrentCalls :
       /\ threads' = [threads EXCEPT ![t] =
                        [pc |-> "running", fn |-> c.fn, args |-> c.args, result |-> <<>>]]
       /\ frames' = [frames EXCEPT ![Slot(t)] = c.args]
  /\ UNCHANGED <<pc, op, args, result, calls, session, curves, users>>

GenerateFinish(t) ==
  /\ threads[t].pc = "running"
  /\ threads[t].fn = "generate_weibull_curve"
  /\ LET f == frames[Slot(t)]
     IN  /\ "shape" \in DOMAIN f
         /\ threads' = [threads EXCEPT ![t].pc = "done",
                          ![t].result = generate_weibull_curve(f.shape, f.scale, f.num_points,
                                                               f.curve_type)]
  /\ UNCHANGED <<pc, op, args, result, calls, session, curves, users, frames>>

FitPointsFinish(t) ==
  /\ threads[t].pc = "running"
  /\ threads[t].fn = "fit_weibull_to_points"
  /\ LET f == frames[Slot(t)]
     IN  /\ "x_points" \in DOMAIN f
         /\ threads' = [threads EXCEPT ![t].pc = "done",
                          ![t].result = fit_weibull_to_points(f.x_points, f.y_points, f.oc)]
  /\ UNCHANGED <<pc, op, args, result, calls, session, curves, users, frames>>

FitMleFinish(t) ==
  /\ threads[t].pc = "running"
  /\ threads[t].fn = "fit_weibull_mle"
  /\ LET f == frames[Slot(t)]
     IN  /\ "lifetimes" \in DOMAIN f
         /\ threads' = [threads EXCEPT ![t].pc = "done",
                          ![t].result = fit_weibull_mle(f.lifetimes, f.oc)]
  /\ UNCHANGED <<pc, op, args, result, calls, session, curves, users, frames>>

InitConcurrent ==
  /\ pc = "idle" /\ op = "none" /\ args = <<>> /\ result = <<>> /\ calls = <<>>
  /\ session = NoSession
  /\ curves = <<>>
  /\ users = <<>>
  /\ frames = [t \in ThreadIds |-> <<>>]
  /\ threads = [t \in ThreadIds |-> IdleThread]

NextConcurrent ==
  \E t \in ThreadIds :
    \/ CallEnter(t)
    \/ GenerateFinish(t)
    \/ FitPointsFinish(t)
    \/ FitMleFinish(t)
    \/ ThreadReturn(t)

SpecConcurrent == InitConcurrent /\ [][NextConcurrent]_vars

----------------------------------------------------------------------------
(* components/guided_selection.py: guided_selection_interface *)

\* lines 22-41: the shape the two answers stand for
initial_shape(failure_pattern, answer) ==
  IF failure_pattern = "Aging and wear-out dominant"
  THEN (IF answer = "Yes" THEN 4 * ONE ELSE (5 * ONE) \div 2)
  ELSE IF failure_pattern = "Early-life or random failure dominant"
  THEN (IF answer = "Yes" THEN ONE \div 2 ELSE ONE)
  ELSE (IF answer = "Yes" THEN 6 * ONE ELSE (3 * ONE) \div 2)

guided_selection_interface(in, sess, db) ==
  LET shape0 == initial_shape(in.failure_pattern, in.answer)
      shape == Slider(in.shape_move, ONE \div 10, 10 * ONE, shape0)
      scale == Slider(in.scale_move, ONE \div 10, MulFx(in.initial_scale, 2 * ONE),
                      in.initial_scale)
  IN  SaveForm(in, shape, scale, "Guided Selection", sess, db,
               <<Call("generate_weibull_curve", <<shape0, in.initial_scale, in.curve_type>>)>>,
               <<[shape |-> shape0, scale |-> in.initial_scale, curve_type |-> in.curve_type]>>,
               NoFit)

----------------------------------------------------------------------------
(* components/auth.py: login_signup and logout; utils/auth.py:               *)
(* authenticate_user.  A run of the login page returns the messages it       *)
(* showed, the session state and the users table afterwards.                 *)

\* lines 44-45: the token is left as it is
GuestSession(sess) == [sess EXCEPT !.user_id = PyNone, !.is_guest = TRUE]

\* utils/auth.py lines 28-33: an opaque value, never None, that names its user
\* (the expiry is left out)
create_access_token(user_id) == BIG + user_id

\* lines 64-67
UserSession(sess, user_id) ==
  [sess EXCEPT !.user_id = user_id, !.token = create_access_token(user_id),
               !.is_guest = FALSE]

\* logout with line 98 left out
LoggedOut_guest(sess) == [sess EXCEPT !.user_id = PyNone, !.token = PyNone]

\* lines 96-98 of logout
LoggedOut(sess) ==
  [sess EXCEPT !.user_id = PyNone, !.token = PyNone, !.is_guest = FALSE]

authenticate_user(email, password, table) ==
  LET found == {i \in 1..Len(table) : table[i].email = email}
  IN  IF found = {} THEN PyNone
      ELSE LET user == table[CHOOSE i \in found : \A j \in found : i <= j]
           IN  IF verify_password(password, user.password) THEN user.id ELSE PyNone

Login(errors, sess, table, lcalls, rerun) ==
  [errors |-> errors, session |-> sess, users |-> table, calls |-> lcalls, rerun |-> rerun]

login_signup(in, sess, table) ==
  IF in.button = "Continue as Guest"
  THEN Login(<<>>, GuestSession(sess), table, <<>>, TRUE)
  ELSE IF in.button = "Login"
  THEN LET user_id == authenticate_user(in.email, in.password, table)
           lcalls == <<Call("authenticate_user", <<in.email, in.password>>)>>
       IN  IF user_id # PyNone
           THEN Login(<<>>, UserSession(sess, user_id), table, lcalls, TRUE)
           ELSE Login(<<<<"Invalid email or password">>>>, sess, table, lcalls, FALSE)
  ELSE IF in.button = "Sign Up"
  THEN IF in.password # in.confirm_password
       THEN Login(<<<<"Passwords do not match">>>>, sess, table, <<>>, FALSE)
       ELSE LET r == create_user(in.email, in.password, table)
            IN  Login(IF r.ok THEN <<>> ELSE <<r.message>>, sess, r.users,
                      <<Call("create_user", <<in.email, in.password>>)>>, FALSE)
  ELSE Login(<<>>, sess, table, <<>>, FALSE)

----------------------------------------------------------------------------
(* main.py: display_curve_comparison, the saved-curves section and main. *)

\* lines 17-56: one generate call per selected name, for the first curve of
\* that name
display_curve_comparison(listing, in) ==
  IF listing = <<>> \/ ~in.selected THEN <<>>
  ELSE <<Call("generate_weibull_curve",
              <<listing[1].shape, listing[1].scale, in.curve_type>>)>>

\* the widgets of a curve are keyed by its name: a second curve of a name
\* already shown makes Streamlit raise and the run ends there
DuplicateKey(listing, i) == \E j \in 1..(i - 1) : listing[j].name = listing[i].name

Section(scalls, db, errors, rerun) ==
  [calls |-> scalls, curves |-> db, errors |-> errors, rerun |-> rerun]

\* lines 170-270, from the i-th saved curve on; a successful delete ends the
\* run with st.rerun()
RECURSIVE SavedLoop(_, _, _, _, _, _, _)
SavedLoop(listing, i, in, sess, db, scalls, errors) ==
  IF i > Len(listing) THEN Section(scalls, db, errors, FALSE)
  ELSE IF DuplicateKey(listing, i)
  THEN Section(scalls, db, Append(errors, <<"DuplicateWidgetID: ", listing[i].name>>), FALSE)
  ELSE
    LET curve == listing[i]
        shown == scalls \o
          <<Call("generate_weibull_curve", <<curve.shape, curve.scale, in.view_type>>),
            Call("export_curve_data", <<curve.shape, curve.scale, in.export_type>>),
            Call("get_csv_download", <<curve.name>>),
            Call("get_excel_download", <<curve.name>>)>>
    IN  IF in.delete # i
        THEN SavedLoop(listing, i + 1, in, sess, db, shown, errors)
        ELSE LET r == delete_curve(curve.name, sess.user_id, db, in.first, in.delete_ok)
                 deleted == Append(shown, Call("delete_curve", <<curve.name, sess.user_id>>))
             IN  IF r.ok
                 THEN Section(deleted, r.curves, errors, TRUE)
                 ELSE SavedLoop(listing, i + 1, in, sess, r.curves, deleted,
                                Append(errors, r.message))

\* the guard of line 162 left out
ShowSaved_always(sess) == TRUE

\* lines 135 and 162: what a guest does not get
ShowSaved(sess) == ~sess.is_guest

Pages(sess) ==
  <<"Point-based fit", "Direct parameter fit", "Guided fit", "Import from CSV (MLE)">>
  \o (IF ~sess.is_guest THEN <<"Compare Curves">> ELSE <<>>)

NoPage == Page(<<>>, <<>>, FALSE, NoFit, NoSave, <<>>, <<>>)

Run(pages, page, mcalls, errors, sess, db, table, rerun) ==
  [pages |-> pages, page |-> page, calls |-> mcalls, errors |-> errors,
   session |-> sess, curves |-> db, users |-> table, rerun |-> rerun]

\* lines 141-152: the selected page
SelectedPage(in, sess, db) ==
  IF in.selected_page = "Point-based fit" THEN point_fitting_interface(in, sess, db)
  ELSE IF in.selected_page = "Direct parameter fit" THEN direct_params_interface(in, sess, db)
  ELSE IF in.selected_page = "Guided fit" THEN guided_selection_interface(in, sess, db)
  ELSE IF in.selected_page = "Import from CSV (MLE)" THEN mle_fitting_interface(in, sess, db)
  ELSE LET listing == get_saved_curves(sess.user_id, db)
       IN  Page(<<>>, <<>>, FALSE, NoFit, NoSave,
                <<Call("get_saved_curves", <<sess.user_id>>)>>
                \o display_curve_comparison(listing, in), db)

\* lines 161-270 after the page
SavedSection(in, sess, page) ==
  IF ShowSaved(sess)
  THEN SavedLoop(get_saved_curves(sess.user_id, page.curves), 1, in, sess, page.curves,
                 page.calls \o <<Call("get_saved_curves", <<sess.user_id>>)>>, <<>>)
  ELSE Section(page.calls, page.curves, <<>>, FALSE)

AfterPage(in, sess, table, page, section) ==
  Run(Pages(sess), page, section.calls, page.errors \o section.errors, sess,
      section.curves, table, section.rerun)

\* lines 154-270: the rest of the run once the page is rendered
WithPage(in, sess, table, page) ==
  AfterPage(in, sess, table, page, SavedSection(in, sess, page))

\* lines 111-120: the run of a session that is neither logged in nor a guest
WithLogin(db, l) == Run(<<>>, NoPage, l.calls, l.errors, l.session, db, l.users, l.rerun)

main(in, sess, db, table) ==
  IF Falsy(sess.user_id) /\ ~sess.is_guest
  THEN WithLogin(db, login_signup(in, sess, table))
  ELSE IF in.logout
  THEN Run(<<>>, NoPage, <<>>, <<>>, LoggedOut(sess), db, table, TRUE)
  ELSE WithPage(in, sess, table, SelectedPage(in, sess, db))

----------------------------------------------------------------------------
(* The application: runs of main() by one browser session, from the login   *)
(* page on.                                                                  *)

LoginInputs ==
  {[button |-> b, email |-> "x", password |-> pw, confirm_password |-> "p", logout |-> FALSE] :
     b \in {"none", "Continue as Guest", "Login", "Sign Up"}, pw \in {"p", "q"}}

PointInputs ==
  [selected_page : {"Point-based fit"},
   x1 : {ONE, 3 * ONE}, x2 : {2 * ONE}, x3 : {3 * ONE}, curve_type : {"cdf"},
   oc : {o \in SolverOutcomes : o.popt[1] < 50 * ONE},
   shape_move : {"keep", "max"}, scale_move : {"keep"}]

DirectInputs ==
  [selected_page : {"Direct parameter fit"},
   shape : {2 * ONE}, scale : {ONE, 5 * ONE}, curve_type : {"cdf", "hazard"}]

GuidedInputs ==
  [selected_page : {"Guided fit"},
   failure_pattern : {"Aging and wear-out dominant", "Early-life or random failure dominant",
                      "Neither of the above"},
   answer : {"Yes", "No"}, initial_scale : {ONE}, curve_type : {"cdf"},
   shape_move : {"keep", "max"}, scale_move : {"keep", "min"}]

MleInputs ==
  [selected_page : {"Import from CSV (MLE)"},
   uploaded_file :
     {NoFile} \cup
     [present : {TRUE}, columns_ok : BOOLEAN,
      rows : {<<[in_service_date |-> 400, retirement_date |-> NaT]>>,
              <<[in_service_date |-> 400, retirement_date |-> 1500],
                [in_service_date |-> 400, retirement_date |-> 1500]>>}],
   oc : {o \in OptimizerOutcomes : o.x[1] = 0}]

CompareInputs ==
  [selected_page : {"Compare Curves"}, selected : BOOLEAN, curve_type : {"cdf", "pdf"}]

NoSaveInput == [save_clicked |-> FALSE, name |-> "", description |-> "", db_ok |-> TRUE]

\* the page inputs a session can give: a guest is not offered the comparison
PageInputs(sess, db) ==
  {p @@ sv : p \in PointInputs \cup DirectInputs \cup GuidedInputs \cup MleInputs,
             sv \in IF MaxId(db) < MaxRowId THEN SaveInputs(db) ELSE {NoSaveInput}}
  \cup (IF sess.is_guest THEN {} ELSE {p @@ NoSaveInput : p \in CompareInputs})

\* the widgets of the saved-curves section: the export type, and at most one
\* Delete button pressed
SavedInputs(sess, db) ==
  LET none == [view_type : {"cdf"}, export_type : {"cdf", "both"}, delete : {0},
               first : {1}, delete_ok : {TRUE}]
  IN  IF sess.is_guest THEN {CHOOSE n \in none : n.export_type = "cdf"}
      ELSE none \cup [view_type : {"cdf"}, export_type : {"cdf"},
                      delete : 1..Len(get_saved_curves(sess.user_id, db)),
                      first : 1..Len(db), delete_ok : BOOLEAN]

\* what a run leaves behind
Ran(in, r) ==
  /\ args' = in
  /\ result' = r
  /\ calls' = r.calls
  /\ session' = r.session
  /\ curves' = r.curves
  /\ users' = r.users
  /\ op' = "main"
  /\ pc' = "done"
  /\ UNCHANGED <<threads, frames>>

AppRun(in) == Ran(in, main(in, session, curves, users))

LoginPage ==
  /\ pc = "idle"
  /\ Falsy(session.user_id) /\ ~session.is_guest
  /\ \E in \in LoginInputs : AppRun(in)

Logout ==
  /\ pc = "idle"
  /\ ~(Falsy(session.user_id) /\ ~session.is_guest)
  /\ AppRun([logout |-> TRUE])

AppPage ==
  /\ pc = "idle"
  /\ ~(Falsy(session.user_id) /\ ~session.is_guest)
  /\ \E p \in PageInputs(session, curves), sv \in SavedInputs(session, curves) :
       AppRun(p @@ sv @@ [logout |-> FALSE])

InitApp == Idle /\ session = NoSession /\ curves = <<>>
NextApp == LoginPage \/ Logout \/ AppPage \/ Return
SpecApp == InitApp /\ [][NextApp]_vars

----------------------------------------------------------------------------
(* components/mle_fitting.py: weibull_loglik.  The likelihood is computed on *)
(* floats that can be negative and can overflow: NINF is -inf, and a finite  *)
(* result of magnitude BIG or more overflows to inf of its sign.             *)

NINF == NAN - ONE

\* line 26: eps = 1e-10, here the smallest positive number of the model
Eps == 1

IsInf(v) == v = INF \/ v = NINF

\* np.isfinite on these floats
IsFiniteX(v) == v # NAN /\ ~IsInf(v)

Overflow(v) == IF v >= BIG THEN INF ELSE IF v <= 0 - BIG THEN NINF ELSE v

NegX(a) == IF a = NAN THEN NAN ELSE IF a = INF THEN NINF ELSE IF a = NINF THEN INF ELSE 0 - a

\* a + b: inf + -inf is nan
AddX(a, b) ==
  IF a = NAN \/ b = NAN THEN NAN
  ELSE IF IsInf(a) THEN (IF IsInf(b) /\ b # a THEN NAN ELSE a)
  ELSE IF IsInf(b) THEN b
  ELSE IF a > 0 /\ b >= BIG - a THEN INF
  ELSE IF a < 0 /\ b <= 0 - BIG - a THEN NINF
  ELSE a + b

SubX(a, b) == AddX(a, NegX(b))

\* a * b: inf * 0 is nan
MulX(a, b) ==
  IF a = NAN \/ b = NAN THEN NAN
  ELSE IF IsInf(a) \/ IsInf(b)
  THEN (IF a = 0 \/ b = 0 THEN NAN ELSE IF (a < 0) = (b < 0) THEN INF ELSE NINF)
  ELSE Overflow(MulS(a, b))

\* np.log: log(0) is -inf, log of a negative number is nan (a warning, no exception)
LogX(u) ==
  IF u = NAN \/ u = NINF THEN NAN
  ELSE IF u = INF THEN INF
  ELSE IF u = 0 THEN NINF
  ELSE IF u < 0 THEN NAN
  ELSE LnFx(u)

\* u ** p for u >= 0: 1 ** p is 1 for every p, nan included
PowX(u, p) ==
  IF u = ONE THEN ONE
  ELSE IF u = NAN \/ p = NAN THEN NAN
  ELSE IF p = INF THEN (IF u < ONE THEN 0 ELSE INF)
  ELSE Overflow(PowFx(u, p))

\* line 27: np.maximum(lifetimes, eps), nan stays nan
LifetimeSafe(l) == IF l = NAN THEN NAN ELSE IF l = INF THEN INF ELSE Max(l, Eps)

\* np.sum(np.log(lifetimes_safe)) from the i-th element on
RECURSIVE SumLog(_, _, _)
SumLog(lifetimes, i, acc) ==
  IF i > Len(lifetimes) THEN acc
  ELSE SumLog(lifetimes, i + 1, AddX(acc, LogX(LifetimeSafe(lifetimes[i]))))

\* np.sum((lifetimes_safe / scale) ** shape) from the i-th element on
RECURSIVE SumPow(_, _, _, _, _)
SumPow(lifetimes, shape, scale, i, acc) ==
  IF i > Len(lifetimes) THEN acc
  ELSE SumPow(lifetimes, shape, scale, i + 1,
              AddX(acc, PowX(Overflow(DivFx(LifetimeSafe(lifetimes[i]), scale)), shape)))

\* lines 30-33
LogLikelihood(n, shape, scale, logs, pows) ==
  SubX(AddX(SubX(MulX(n, LogX(shape)), MulX(MulX(n, shape), LogX(scale))),
            MulX(SubX(shape, ONE), logs)),
       pows)

\* line 35 left out: whatever the sum is, is returned
NotFinite_never(ll) == FALSE

\* line 35
NotFinite(ll) == ~IsFiniteX(ll)

Returned(v) == [kind |-> "return", value |-> v]

\* lines 35-38
Negated(ll) == IF NotFinite(ll) THEN Returned(INF) ELSE Returned(NegX(ll))

\* an element that is None makes np.maximum raise TypeError inside the try
\* block; line 39 catches every exception
weibull_loglik(params, lifetimes) ==
  IF LeZero(params[1]) \/ LeZero(params[2]) THEN Returned(INF)
  ELSE IF \E i \in 1..Len(lifetimes) : lifetimes[i] = PyNone THEN Returned(INF)
  ELSE Negated(LogLikelihood(Len(lifetimes) * ONE, params[1], params[2],
                             SumLog(lifetimes, 1, 0),
                             SumPow(lifetimes, params[1], params[2], 1, 0)))

\* the parameter pairs a search may probe, and the lifetimes it is given
ProbeValues == {0 - ONE, 0, NAN, INF, ONE \div 10, ONE, 3 * ONE, 50 * ONE}
LoglikLifetimes == {0 - ONE, 0, ONE \div 2, 3 * ONE, NAN, PyNone}

WeibullLoglik ==
  /\ pc = "idle"
  /\ \E shape \in ProbeValues, scale \in ProbeValues,
        lifetimes \in SeqsUpTo(LoglikLifetimes, MaxLifetimes) :
       /\ args' = [params |-> <<shape, scale>>, lifetimes |-> lifetimes]
       /\ result' = weibull_loglik(<<shape, scale>>, lifetimes)
  /\ op' = "weibull_loglik"
  /\ pc' = "done"
  /\ UNCHANGED <<calls, session, curves, users, threads, frames>>

InitLoglik == Idle /\ session = NoSession /\ curves = <<>>
NextLoglik == WeibullLoglik \/ Return
SpecLoglik == InitLoglik /\ [][NextLoglik]_vars

----------------------------------------------------------------------------
(* utils/weibull_functions.py: the while loop of find_truncation_point, one  *)
(* iteration at a time.  result holds x_left, x_right and the number of      *)
(* iterations made so far; scale * 10 overflows to inf as the likelihood     *)
(* does.                                                                     *)

MaxIters == 24

\* x_right - x_left on floats
Width(x_left, x_right) == IF x_right = INF THEN INF ELSE x_right - x_left

\* (x_left + x_right) / 2 on floats
Midpoint(x_left, x_right) ==
  IF x_right = INF THEN INF ELSE x_left + (x_right - x_left) \div 2

\* lines 49-50
BisectStart(scale) ==
  [x_left |-> 0, x_right |-> Overflow(MulFx(scale, 10 * ONE)), iters |-> 0]

\* line 52
BisectGoesOn(b) == Width(b.x_left, b.x_right) > Precision

\* lines 53-59 with x_mid and pdf_value computed
BisectMove(b, x_mid, pdf_value) ==
  IF pdf_value > PdfThreshold
  THEN [x_left |-> x_mid, x_right |-> b.x_right, iters |-> b.iters + 1]
  ELSE [x_left |-> b.x_left, x_right |-> x_mid, iters |-> b.iters + 1]

\* lines 53-59: one iteration
BisectBody(b, shape, scale) ==
  BisectMove(b, Midpoint(b.x_left, b.x_right),
             weibull_pdf(Midpoint(b.x_left, b.x_right), shape, scale))

BisectScales == {ONE \div 10, ONE, 5 * ONE, 150 * ONE, 500 * ONE}

BisectEnter ==
  /\ pc = "idle"
  /\ \E shape \in ShapeValues, scale \in BisectScales :
       /\ args' = [shape |-> shape, scale |-> scale]
       /\ result' = BisectStart(scale)
  /\ op' = "find_truncation_point"
  /\ pc' = "loop"
  /\ UNCHANGED <<calls, session, curves, users, threads, frames>>

BisectStep ==
  /\ pc = "loop"
  /\ BisectGoesOn(result)
  /\ result.iters < MaxIters
  /\ result' = BisectBody(result, args.shape, args.scale)
  /\ UNCHANGED <<pc, op, args, calls, session, curves, users, threads, frames>>

BisectExit ==
  /\ pc = "loop"
  /\ ~BisectGoesOn(result)
  /\ pc' = "done"
  /\ UNCHANGED <<op, args, result, calls, session, curves, users, threads, frames>>

InitBisect == Idle /\ session = NoSession /\ curves = <<>>
NextBisect == BisectEnter \/ BisectStep \/ BisectExit \/ Return
SpecBisect == InitBisect /\ [][NextBisect]_vars

----------------------------------------------------------------------------
(* components/mle_fitting.py: the search of fit_weibull_mle, one iteration   *)
(* of the optimizer at a time.  What an iteration does to the simplex is the *)
(* library's; the model keeps the number of iterations made and lets the     *)
(* search converge after any of them.                                        *)

\* line 67: options={'maxiter': 1000}
maxiter == 1000

\* the budget left unenforced
Exhausted_never(iterations) == FALSE

\* Nelder-Mead stops once it has made maxiter iterations
Exhausted(iterations) == iterations >= maxiter

\* the sample passes lines 44-48 and minimize accepts the bounds of line 65
SearchStarts(lifetimes) ==
  /\ Len(lifetimes) >= 2
  /\ \A i \in 1..Len(lifetimes) : lifetimes[i] > 0
  /\ \A i \in 1..2 : MleLower[i] <= MleUpper(lifetimes)[i]

\* what the optimizer reports when it stops after the given iterations at x
Stopped(iterations, x) ==
  IF Exhausted(iterations)
  THEN [success |-> FALSE, x |-> x,
        message |-> "Maximum number of iterations has been exceeded."]
  ELSE [success |-> TRUE, x |-> x, message |-> "Optimization terminated successfully."]

Iterates == {<<(3 * ONE) \div 2, 2 * ONE>>, <<60 * ONE, NAN>>}

\* samples that are refused, one whose bounds minimize refuses, and two that
\* are searched
SearchSamples ==
  {<<>>, <<ONE>>, <<0, ONE>>, <<ONE \div 50, ONE \div 50>>, <<ONE, 3 * ONE>>,
   <<ONE \div 50, ONE, 3 * ONE>>}

\* the call, up to minimize: a sample that is refused ends the call at once
SearchEnter ==
  /\ pc = "idle"
  /\ \E lifetimes \in SearchSamples :
       /\ args' = [lifetimes |-> lifetimes]
       /\ IF SearchStarts(lifetimes)
          THEN pc' = "search" /\ result' = [iterations |-> 0]
          ELSE pc' = "done" /\ result' = fit_weibull_mle(lifetimes, Stopped(0, <<0, 0>>))
  /\ op' = "fit_weibull_mle"
  /\ UNCHANGED <<calls, session, curves, users, threads, frames>>

\* one more iteration
SearchIterate ==
  /\ pc = "search"
  /\ ~Exhausted(result.iterations)
  /\ result.iterations <= maxiter
  /\ result' = [iterations |-> result.iterations + 1]
  /\ UNCHANGED <<pc, op, args, calls, session, curves, users, threads, frames>>

\* the search stops, converged or out of budget, and lines 70-80 run
SearchStop ==
  /\ pc = "search"
  /\ \E x \in Iterates :
       /\ args' = [lifetimes |-> args.lifetimes, iterations |-> result.iterations,
                   oc |-> Stopped(result.iterations, x)]
       /\ result' = fit_weibull_mle(args.lifetimes, Stopped(result.iterations, x))
  /\ pc' = "done"
  /\ UNCHANGED <<op, calls, session, curves, users, threads, frames>>

InitSearch == Idle /\ session = NoSession /\ curves = <<>>
NextSearch == SearchEnter \/ SearchIterate \/ SearchStop \/ Return
SpecSearch == InitSearch /\ [][NextSearch]_vars
\* an iteration is finite work, and the library stops when its loop ends
FairSearch == SpecSearch /\ WF_vars(SearchIterate) /\ WF_vars(SearchStop)

----------------------------------------------------------------------------
(* Properties *)

Generated == pc = "done" /\ op = "generate_weibull_curve"
Exported == pc = "done" /\ op = "export_curve_data"

HasColumn(df, col) == col \in DOMAIN df

(* C1: every row of the table export_curve_data builds is a point of the
   curve: its Probability_Density is pdf(X_Value, shape, scale) and its
   Cumulative_Probability is cdf(X_Value, shape, scale), in every export
   mode. *)
C1_ExportRowsOnCurve ==
  Exported =>
    \A i \in 1..Len(result.X_Value) :
      /\ HasColumn(result, "Probability_Density") =>
           result.Probability_Density[i]
             = weibull_pdf(result.X_Value[i], args.shape, args.scale)
      /\ HasColumn(result, "Cumulative_Probability") =>
           result.Cumulative_Probability[i]
             = weibull_cdf(result.X_Value[i], args.shape, args.scale)

InRange(curve_type, y) ==
  IF Lower(curve_type) = "cdf" THEN 0 <= y /\ y <= ONE ELSE y >= 0

WellFormedCurve(c, shape, scale, num_points, curve_type) ==
  /\ Len(c.x) = num_points
  /\ Len(c.y) = num_points
  /\ c.x[1] = 0
  /\ c.x[num_points] = find_truncation_point(shape, scale, curve_type)
  /\ c.x[num_points] > 0
  /\ \A i \in 1..(num_points - 1) : c.x[i] < c.x[i + 1]
  /\ \A i \in 1..num_points : InRange(curve_type, c.y[i])

(* C2, as stated: for every shape, scale, curve type and every num_points
   the curve has num_points samples, x strictly increasing from 0 to a
   positive x_max, and y in the range of its curve type. *)
C2_CurveWellFormedAnyCount ==
  Generated =>
    WellFormedCurve(result, args.shape, args.scale, args.num_points, args.curve_type)

(* C2, amended: the same for every num_points >= 2 (one sample is the point
   x = 0 alone and cannot reach x_max). *)
C2_CurveWellFormed ==
  (Generated /\ args.num_points >= 2) =>
    WellFormedCurve(result, args.shape, args.scale, args.num_points, args.curve_type)

C2_Witness ==
  /\ Generated
  /\ args.num_points = MaxPoints
  /\ args.curve_type = "pdf"
  /\ args.shape = ONE \div 2
  /\ result.x[MaxPoints] > result.x[MaxPoints - 1]

\* sixty-four evenly spaced probes of [0, 10 * scale]
ProbeGrid(scale) == {j * (MulFx(scale, 10 * ONE) \div 64) : j \in 0..64}

(* C8: the x_max of a PDF curve is, within the 0.01 tolerance, the largest x
   in [0, 10*scale] whose density exceeds 1e-4: no probe further right than
   x_max + 0.01 has a density above the threshold, and when some probe has
   one, so has the point 0.01 left of x_max. *)
C8_TruncationIsLastCrossing ==
  (Generated /\ Lower(args.curve_type) = "pdf" /\ args.num_points >= 2) =>
    LET x_max == result.x[args.num_points]
        Above(x) == weibull_pdf(x, args.shape, args.scale) > PdfThreshold
    IN  /\ \A x \in ProbeGrid(args.scale) : x > x_max + Precision => ~Above(x)
        /\ (\E x \in ProbeGrid(args.scale) : Above(x))
             => Above(Max(0, x_max - Precision))

PointPageDone == pc = "done" /\ op = "point_fitting_interface"

Range(f) == {f[i] : i \in DOMAIN f}

\* the solver was called and gave up: the starting point was feasible
SolverGaveUp ==
  /\ AgesAscending(args.x1, args.x2, args.x3)
  /\ InBounds(<<2 * ONE, Mean3(<<args.x1, args.x2, args.x3>>)>>, FitLower, FitUpper)
  /\ ~args.oc.converged

(* C3: when the solver does not converge, fit_weibull_to_points returns
   (None, None) and does not raise; what it returns is two None or two
   numbers; and on (None, None) the page shows 'Could not fit Weibull curve
   to provided points', plots nothing and offers no save. *)
C3_FailureIsSentinel ==
  PointPageDone =>
    /\ SolverGaveUp =>
         result.fit.kind = "return" /\ result.fit.value = <<PyNone, PyNone>>
    /\ result.fit.kind = "return" =>
         (result.fit.value[1] = PyNone) = (result.fit.value[2] = PyNone)
    /\ (result.fit.kind = "return" /\ result.fit.value[1] = PyNone) =>
         /\ result.errors = <<CouldNotFitMsg>>
         /\ result.plotted = <<>>
         /\ ~result.save_offered
         /\ \A c \in Range(calls) : c.fn # "save_curve" /\ c.fn # "generate_weibull_curve"

C3_Witness ==
  /\ PointPageDone
  /\ SolverGaveUp
  /\ ~session.is_guest
  /\ args.save_clicked
  /\ result.errors = <<CouldNotFitMsg>>

(* C4: for any three ascending ages >= 0.1 and every outcome of the solver
   call, fit_weibull_to_points returns a pair or (None, None) and never
   raises. *)
C4_FitNeverRaises ==
  (PointPageDone /\ AgesAscending(args.x1, args.x2, args.x3)) =>
    result.fit.kind = "return"

(* C5: ages that are not ascending are rejected before any optimizer call:
   the least-squares solver is never called with x1 > x2 or x2 > x3, and a
   page run with such ages makes no call at all. *)
C5_NoSolverCallOnUnsortedAges ==
  /\ \A c \in Range(calls) :
       c.fn = "curve_fit" => (c.a[1] <= c.a[2] /\ c.a[2] <= c.a[3])
  /\ (PointPageDone /\ (args.x1 > args.x2 \/ args.x2 > args.x3)) =>
       calls = <<>> /\ result.errors = <<AscendingMsg>>

C5_Witness ==
  /\ PointPageDone
  /\ args.x1 = 3 * ONE /\ args.x2 = 2 * ONE /\ args.x3 = ONE
  /\ args.oc.converged
  /\ result.errors = <<AscendingMsg>>
  /\ calls = <<>>

----------------------------------------------------------------------------
(* The MLE fitter *)

MleDone == pc = "done" /\ op = "fit_weibull_mle"

TooFew == Len(args.lifetimes) < 2
NonPositive == \E i \in 1..Len(args.lifetimes) : args.lifetimes[i] <= 0
OptimizerRan ==
  /\ ~TooFew
  /\ ~NonPositive
  /\ MulFx(MaxOf(args.lifetimes), 2 * ONE) >= ONE \div 10
NotConverged == OptimizerRan /\ ~args.oc.success
NonFinite == OptimizerRan /\ args.oc.success /\ \E i \in 1..2 : args.oc.x[i] = NAN

(* C6: fit_weibull_mle raises, and never returns a pair, in each of its four
   failure conditions (fewer than 2 data points, a non-positive lifetime, an
   optimizer that reports non-convergence, a non-finite shape or scale), and
   the reason it raises with is that of the condition and of no other. *)
C6_EachFailureHasItsOwnError ==
  MleDone =>
    /\ (TooFew \/ NonPositive \/ NotConverged \/ NonFinite) => result.kind = "raise"
    /\ result.msg = <<"Need at least 2 data points for fitting">> <=> TooFew
    /\ result.msg = <<"All lifetimes must be positive">> <=> (~TooFew /\ NonPositive)
    /\ result.msg = <<"Fitting error: ", "Optimization failed: ", args.oc.message>>
         <=> NotConverged
    /\ result.msg = <<"Fitting error: ", "Optimization resulted in invalid parameters">>
         <=> NonFinite

C6_Witness ==
  /\ MleDone
  /\ NonFinite
  /\ result.kind = "raise"

(* C7: when fit_weibull_mle returns, the sample had at least 2 lifetimes, all
   strictly positive, and the returned shape and scale are finite and
   strictly positive, whatever the bounded optimizer reported. *)
C7_ReturnedFitIsFinitePositive ==
  (MleDone /\ result.kind = "return") =>
    /\ ~TooFew
    /\ ~NonPositive
    /\ \A i \in 1..2 : IsFinite(result.value[i]) /\ result.value[i] > 0

C7_Witness ==
  /\ MleDone
  /\ result.kind = "return"
  /\ args.oc.x = <<0, 0>>
  /\ result.value[1] = ONE \div 10

----------------------------------------------------------------------------
(* The MLE upload page *)

MlePageDone == pc = "done" /\ op = "mle_fitting_interface"

FitCalls == {i \in 1..Len(calls) : calls[i].fn = "fit_weibull_mle"}

Parses(rows) ==
  \A i \in 1..Len(rows) :
    rows[i].in_service_date # BadDate /\ rows[i].retirement_date # BadDate

Survivors(rows) ==
  {i \in 1..Len(rows) :
     /\ rows[i].retirement_date # NaT
     /\ rows[i].in_service_date # NaT
     /\ rows[i].retirement_date > rows[i].in_service_date}

(* C10: on the upload page fit_weibull_mle is called only with strictly
   positive lifetimes, one for each row whose retirement date is present and
   later than its in-service date; a file missing a required column, or one
   where no row survives, is reported as an error (the latter as 'No valid
   lifetime data found after processing') and fit_weibull_mle is not called. *)
C10_OnlyPositiveLifetimesAreFitted ==
  (MlePageDone /\ args.uploaded_file.present) =>
    LET file == args.uploaded_file IN
    /\ \A i \in FitCalls :
         /\ \A j \in 1..Len(calls[i].a) : calls[i].a[j] # NAN /\ calls[i].a[j] > 0
         /\ Len(calls[i].a) = Cardinality(Survivors(file.rows))
    /\ ~file.columns_ok => (FitCalls = {} /\ result.errors # <<>>)
    /\ (file.columns_ok /\ Parses(file.rows) /\ Survivors(file.rows) = {}) =>
         /\ FitCalls = {}
         /\ result.errors = <<<<"No valid lifetime data found after processing">>>>

C10_Witness ==
  /\ MlePageDone
  /\ FitCalls # {}
  /\ Cardinality(Survivors(args.uploaded_file.rows)) < Len(args.uploaded_file.rows)

----------------------------------------------------------------------------
(* Parameter validation and the direct-entry page *)

ValidateDone == pc = "done" /\ op = "validate_parameters"

\* the argument is a number (a float, or text that reads as one) and is > 0
PositiveNumber(value) ==
  /\ value.t \in {"float", "str"}
  /\ value.v # PyNone
  /\ value.v # NAN
  /\ value.v > 0

DirectPageDone == pc = "done" /\ op = "direct_params_interface"

(* C9: validate_parameters returns an (ok, message) pair for every input, ok
   true with an empty message exactly when both values are numbers with
   shape > 0 and scale > 0, and ok false with a non-empty message otherwise;
   the direct-entry page calls generate_weibull_curve only after a
   validate_parameters call that returned ok. *)
C9_ValidateIsTotalAndExact ==
  /\ ValidateDone =>
       /\ result.kind = "return"
       /\ result.ok <=> (PositiveNumber(args.shape) /\ PositiveNumber(args.scale))
       /\ result.ok => result.message = ""
       /\ ~result.ok => result.message # ""
  /\ DirectPageDone =>
       \A i \in 1..Len(calls) :
         calls[i].fn = "generate_weibull_curve" =>
           \E j \in 1..(i - 1) :
             /\ calls[j].fn = "validate_parameters"
             /\ validate_parameters(PyFloat(calls[j].a[1]), PyFloat(calls[j].a[2])).ok

----------------------------------------------------------------------------
(* The stored curves *)

SaveStep == pc = "idle" /\ op' = "save_curve"
DeleteStep == pc = "idle" /\ op' = "delete_curve"
GetStep == pc = "idle" /\ op' = "get_saved_curves"

Ids(db) == {db[i].id : i \in 1..Len(db)}

(* C11: save_curve returns an (ok, message) pair; with an empty name, a
   missing user_id or a failed write ok is false; whenever ok is false the
   table is unchanged; when ok is true the table is the old one followed by
   one new row, with a new id, holding the given name, description, shape,
   scale, method and user_id. *)
C11_SaveAddsOneCurveOrNothing ==
  [][SaveStep =>
       /\ result'.ok \in BOOLEAN
       /\ (args'.name = "" \/ args'.user_id = PyNone \/ ~args'.db_ok) => ~result'.ok
       /\ ~result'.ok => curves' = curves
       /\ result'.ok =>
            /\ Len(curves') = Len(curves) + 1
            /\ SubSeq(curves', 1, Len(curves)) = curves
            /\ LET new == curves'[Len(curves')]
               IN  /\ new.id \notin Ids(curves)
                   /\ new.name = args'.name
                   /\ new.description = args'.description
                   /\ new.shape = args'.shape
                   /\ new.scale = args'.scale
                   /\ new.method = args'.method
                   /\ new.user_id = args'.user_id]_vars

C11_Witness ==
  /\ pc = "done" /\ op = "save_curve"
  /\ result.ok
  /\ Len(curves) = 2
  /\ curves[2].name = args.name

OwnedBy(db, u) == LET Owned(row) == row.user_id = u IN SelectSeq(db, Owned)

(* C17: get_saved_curves(u) returns the rows saved with user_id = u and no
   others, and delete_curve(name, u) leaves the rows of every other user as
   they were, also when another user has a curve of that name. *)
C17_CurvesIsolatedPerUser ==
  [][/\ GetStep =>
          LET mine == OwnedBy(curves, args'.user_id)
          IN  /\ Len(result') = (IF args'.user_id = PyNone THEN 0 ELSE Len(mine))
              /\ \A i \in 1..Len(result') : result'[i] = CurveDict(mine[Len(mine) + 1 - i])
     /\ DeleteStep =>
          \A u \in UserIds \ {args'.user_id} : OwnedBy(curves', u) = OwnedBy(curves, u)]_vars

C17_Witness ==
  /\ pc = "done" /\ op = "delete_curve"
  /\ result.ok
  /\ args.user_id = 1
  /\ Len(curves) = 1
  /\ curves[1].user_id = 2
  /\ curves[1].name = args.curve_name

(* C18: after delete_curve(name, u) returned (True, 'Curve deleted
   successfully') no row of u has that name, whatever u saved before; and when
   it returned (False, 'Curve not found') the table is unchanged. *)
C18_DeletedNameIsGone ==
  [][DeleteStep =>
       /\ (result'.ok /\ result'.message = <<"Curve deleted successfully">>) =>
            \A i \in 1..Len(curves') :
              ~(curves'[i].name = args'.curve_name /\ curves'[i].user_id = args'.user_id)
       /\ result'.message = <<"Curve not found">> => curves' = curves]_vars

----------------------------------------------------------------------------
(* The kernel at x = 0 *)

(* C13: the first sample of every generated PDF or hazard curve, which is
   weibull_pdf or weibull_hazard at x = 0, is a finite value, for shapes
   below, equal to and above 1. *)
C13_FirstSampleFinite ==
  (Generated /\ args.curve_type \in {"pdf", "hazard"}) =>
    /\ result.x[1] = 0
    /\ IsFinite(result.y[1])

----------------------------------------------------------------------------
(* The starting point of the MLE search *)

\* the fitter got as far as its starting point
GuessMade == MleDone /\ ~TooFew /\ ~NonPositive

(* C20: for every sample of at least 2 strictly positive lifetimes the
   initial shape guess lies in [0.5, 5.0] and the initial scale guess is
   finite and positive; when p75 = p25 the shape guess is 5.0. *)
C20_InitialGuessClamped ==
  GuessMade =>
    LET guess == InitialGuess(args.lifetimes)
    IN  /\ ONE \div 2 <= guess[1] /\ guess[1] <= 5 * ONE
        /\ IsFinite(guess[2]) /\ guess[2] > 0
        /\ Percentile(args.lifetimes, 75) = Percentile(args.lifetimes, 25)
             => guess[1] = 5 * ONE

C20_Witness ==
  /\ GuessMade
  /\ args.lifetimes = <<ONE, ONE>>
  /\ InitialGuess(args.lifetimes)[1] = 5 * ONE

----------------------------------------------------------------------------
(* Concurrent signups *)

SignupDone(t) == threads[t].pc = "done" /\ threads[t].fn = "create_user"

\* thread t's create_user call returns in this step
SignupReturns(t) == threads[t].pc # "done" /\ threads'[t].pc = "done"

EmailsUnique ==
  \A i, j \in 1..Len(users) : users[i].email = users[j].email => i = j

\* the calls that have returned: one winner at most for an email, and the
\* email of every call that returned is registered
OneWinner ==
  /\ \A t1, t2 \in ThreadIds :
       (/\ SignupDone(t1) /\ SignupDone(t2)
        /\ threads[t1].result.ok /\ threads[t2].result.ok
        /\ threads[t1].args.email = threads[t2].args.email) => t1 = t2
  /\ \A t \in ThreadIds : SignupDone(t) => Registered(users, threads[t].args.email)

\* a call for a registered email fails and adds nothing; a call that
\* succeeds adds its email and nothing else
LoserAddsNothing ==
  \A t \in ThreadIds :
    SignupReturns(t) =>
      /\ Registered(users, threads'[t].args.email) =>
           (~threads'[t].result.ok /\ users' = users)
      /\ ~threads'[t].result.ok => users' = users
      /\ threads'[t].result.ok =>
           /\ Len(users') = Len(users) + 1
           /\ SubSeq(users', 1, Len(users)) = users
           /\ users'[Len(users')].email = threads'[t].args.email

(* C19: under any interleaving of create_user calls no two stored users share
   an email; a call for an email that is registered, before the call or by a
   concurrent call that committed first, returns ok = false and adds no user;
   of the calls competing for one email one and only one returns ok = true. *)
C19_NoDuplicateEmail == []EmailsUnique /\ []OneWinner /\ [][LoserAddsNothing]_vars

\* two calls passed the SELECT for the same email; one committed, the other
\* was refused by the table
C19_Witness ==
  /\ SignupDone(1) /\ SignupDone(2)
  /\ threads[1].args.email = threads[2].args.email
  /\ threads[1].result.ok
  /\ threads[2].result.message[1] = "Error creating user: "

----------------------------------------------------------------------------
(* Concurrent fitting and curve generation *)

\* what the call of thread t returns when it runs alone
Alone(t) ==
  LET a == threads[t].args
  IN  IF threads[t].fn = "generate_weibull_curve"
      THEN generate_weibull_curve(a.shape, a.scale, a.num_points, a.curve_type)
      ELSE IF threads[t].fn = "fit_weibull_to_points"
      THEN fit_weibull_to_points(a.x_points, a.y_points, a.oc)
      ELSE fit_weibull_mle(a.lifetimes, a.oc)

SameAsAlone ==
  \A t \in ThreadIds : threads[t].pc = "done" => threads[t].result = Alone(t)

\* a call leaves the arguments it was given as they were
ArgumentsKept ==
  \A t \in ThreadIds :
    (threads[t].pc # "idle" /\ threads'[t].pc # "idle") => threads'[t].args = threads[t].args

(* C12: under any interleaving of calls of generate_weibull_curve,
   fit_weibull_to_points and fit_weibull_mle, every call returns what it
   returns when run alone, and no call changes its arguments. *)
C12_CallsIndependent == []SameAsAlone /\ [][ArgumentsKept]_vars

\* two calls of the same function on different arguments, entered one after
\* the other, both finished
C12_Witness ==
  /\ threads[1].pc = "done" /\ threads[2].pc = "done"
  /\ threads[1].fn = "generate_weibull_curve" /\ threads[2].fn = "generate_weibull_curve"
  /\ threads[1].args.shape # threads[2].args.shape
  /\ threads[1].result # threads[2].result

----------------------------------------------------------------------------
(* Runs of main() *)

MainDone == pc = "done" /\ op = "main"

\* a run of main() starts in this step
MainStep == pc = "idle" /\ op' = "main"

(* C15: on every fitting page, the shape and scale passed to save_curve are
   those of the curve plotted last in that run, also after the fine-tune
   sliders have been moved. *)
C15_SavedIsPlotted ==
  MainDone =>
    \A i \in 1..Len(result.page.calls) :
      result.page.calls[i].fn = "save_curve" =>
        /\ result.page.plotted # <<>>
        /\ LET last == result.page.plotted[Len(result.page.plotted)]
           IN  /\ result.page.calls[i].a[3] = last.shape
               /\ result.page.calls[i].a[4] = last.scale

GuestForbidden ==
  {"save_curve", "delete_curve", "get_saved_curves", "export_curve_data",
   "get_csv_download", "get_excel_download"}

(* C16: in a run of main() by a guest session no call of save_curve,
   delete_curve, get_saved_curves, export_curve_data or the download builders
   is made, the 'Compare Curves' page is not offered and the table is not
   changed, whatever page and inputs are selected. *)
C16_GuestCannotSaveOrDownload ==
  [][(MainStep /\ session.is_guest) =>
       /\ \A i \in 1..Len(calls') : calls'[i].fn \notin GuestForbidden
       /\ \A i \in 1..Len(result'.pages) : result'.pages[i] # "Compare Curves"
       /\ curves' = curves]_vars

C16_Witness ==
  /\ MainDone
  /\ session.is_guest
  /\ "selected_page" \in DOMAIN args
  /\ args.selected_page = "Guided fit"
  /\ args.save_clicked
  /\ result.page.plotted # <<>>
  /\ Len(result.pages) = 4

----------------------------------------------------------------------------
(* The bounds of the MLE search *)

\* the bounds of line 65 are well formed for the sample
BoundsWellFormed == MleLower[2] <= MleUpper(args.lifetimes)[2]

\* the starting point of lines 55-58 lies inside the bounds of line 65
StartInside ==
  LET guess == InitialGuess(args.lifetimes)
      ub == MleUpper(args.lifetimes)
  IN  /\ MleLower[1] <= guess[1] /\ guess[1] <= ub[1]
      /\ MleLower[2] <= guess[2] /\ guess[2] <= ub[2]

(* C21: for every sample fit_weibull_mle accepts (at least 2 strictly
   positive lifetimes) the search starts from a point inside well-formed
   bounds: 0.1 <= 2*max(lifetimes), 0.1 <= k0 <= 50 and
   0.1 <= lambda0 <= 2*max(lifetimes). *)
C21_StartInsideBounds == GuessMade => (BoundsWellFormed /\ StartInside)

----------------------------------------------------------------------------
(* The negative log-likelihood *)

LoglikDone == pc = "done" /\ op = "weibull_loglik"

\* the search can be given the pair: a positive shape and scale
Probed == ~LeZero(args.params[1]) /\ ~LeZero(args.params[2])

(* C22: weibull_loglik never raises and never returns NaN or negative
   infinity: for every parameter pair and every lifetime array it returns a
   finite negative log-likelihood or positive infinity, the lifetimes below
   eps replaced by eps before the logarithms are taken. *)
C22_LoglikFiniteOrInf ==
  LoglikDone =>
    /\ result.kind = "return"
    /\ result.value # NAN /\ result.value # NINF
    /\ IsFiniteX(result.value) \/ result.value = INF
    /\ \A i \in 1..Len(args.lifetimes) :
         args.lifetimes[i] \notin {NAN, PyNone}
           => IsFiniteX(LogX(LifetimeSafe(args.lifetimes[i])))

\* a probe whose sum is nan (inf - inf) comes back as +inf, over a sample
\* with a zero lifetime
C22_Witness ==
  /\ LoglikDone
  /\ Probed
  /\ args.params = <<INF, 3 * ONE>>
  /\ args.lifetimes = <<0, 3 * ONE>>
  /\ result.value = INF

----------------------------------------------------------------------------
(* The truncation bisection *)

Bisecting == pc = "loop" /\ op = "find_truncation_point"
BisectDone == pc = "done" /\ op = "find_truncation_point"

\* ceil(log2(1000 * scale)), 0 for scale <= 0.001
RECURSIVE IterationBound(_)
IterationBound(scale) ==
  IF scale <= ONE \div 1000 THEN 0 ELSE 1 + IterationBound((scale + 1) \div 2)

(* C23: the PDF truncation bisection ends within bounded iterations for every
   finite shape > 0 and scale > 0: the number of iterations is at most
   ceil(log2(1000 * scale)), and the loop is left with a width of at most
   0.01. *)
C23_BisectionBounded ==
  /\ Bisecting => result.iters <= IterationBound(args.scale)
  /\ BisectDone => Width(result.x_left, result.x_right) <= Precision

----------------------------------------------------------------------------
(* The budget of the MLE search *)

Searching == pc = "search" /\ op = "fit_weibull_mle"
SearchDone == pc = "done" /\ op = "fit_weibull_mle" /\ "iterations" \in DOMAIN args

\* the search never makes more than maxiter iterations
WithinBudget == Searching => result.iterations <= maxiter

\* a search that stopped without converging ends in the error, no pair returned
FailureRaised ==
  (SearchDone /\ ~args.oc.success) =>
    /\ result.kind = "raise"
    /\ result.msg = <<"Fitting error: ", "Optimization failed: ", args.oc.message>>

\* a search out of budget has not converged
BudgetFails == (SearchDone /\ args.iterations >= maxiter) => ~args.oc.success

(* C24: fit_weibull_mle never hangs: the optimizer makes at most its budget
   of 1000 iterations, and when it stops without having converged the call
   ends by raising 'Optimization failed: ...' instead of returning the last
   iterate as parameters. *)
C24_SearchEndsWithinBudget ==
  /\ []WithinBudget
  /\ []FailureRaised
  /\ []BudgetFails
  /\ Searching ~> SearchDone

C24_Witness ==
  /\ SearchDone
  /\ args.iterations = maxiter
  /\ args.oc.x = <<(3 * ONE) \div 2, 2 * ONE>>
  /\ result.kind = "raise"

----------------------------------------------------------------------------
(* The session state *)

LoggedOutState(sess) == Falsy(sess.user_id) /\ ~sess.is_guest

\* a user id and the guest flag never hold together
NeverUserAndGuest == ~(session.user_id # PyNone /\ session.is_guest)

\* a run renders a fitting page only for a user or a guest, and nothing but
\* the login page otherwise
PageOnlyWhenAdmitted ==
  MainStep =>
    /\ LoggedOutState(session) => (result'.pages = <<>> /\ result'.page = NoPage)
    /\ result'.pages # <<>> => ~LoggedOutState(session)

\* logout clears user_id, token and is_guest
LogoutClears ==
  (MainStep /\ ~LoggedOutState(session) /\ args'.logout) =>
    /\ session'.user_id = PyNone
    /\ session'.token = PyNone
    /\ ~session'.is_guest
    /\ LoggedOutState(session')

(* C25: over any sequence of 'Continue as Guest', successful or failed
   login, sign-up and logout: a non-null user_id and is_guest never hold
   together; main() renders a fitting page only when user_id is set or
   is_guest is true and otherwise only the login page; after logout user_id,
   token and is_guest are all cleared, so that the next run shows the login
   page. *)
C25_SessionStateConsistent ==
  /\ []NeverUserAndGuest
  /\ [][PageOnlyWhenAdmitted]_vars
  /\ [][LogoutClears]_vars

\* a logout has just run, in an application that has a registered user
C25_Witness ==
  /\ MainDone
  /\ args.logout
  /\ users # <<>>
  /\ session = NoSession

====
